---- MODULE Spec2Model ----
(***************************************************************************)
(* Subtree synchronisation and publish orchestration of the mcpresso       *)
(* monorepo: scripts/sync-subtree.js (syncSubtree, hasLocalChanges,        *)
(* syncAll, main) and the publish generators of turbo/generators/config.ts.*)
(*                                                                         *)
(* The version-control backend is the environment.  A subtree's history is *)
(* a set of commit identifiers; the remote main line of a project is a set *)
(* of commit identifiers too.  A plain push is accepted by the backend only*)
(* as a fast-forward (every remote commit is already in the pushed         *)
(* history); a forced push replaces the remote main line.                  *)
(***************************************************************************)
EXTENDS Naturals, Sequences, FiniteSets, TLC

\* ------------------------------------------------------------------ bounds
NumProjects == 2
\* Things that happen around the first command without its doing them: a
\* commit by the operator, a push by somebody else, a command failing for an
\* outside cause, the operator running the command line once more.  (The one
\* uncommitted edit the operator may leave in the tree is not counted.)
MaxEvents == 2

\* --------------------------------------------------------------- registry
\* Object.keys(projects): the static table, in insertion order.
StaticTable ==
  << "mcpresso", "mcpresso-oauth-server", "mcpresso-openapi-generator",
     "template-docker-oauth-postgresql", "template-express-oauth-sqlite",
     "template-express-no-auth" >>

\* The projects of turbo/generators/config.ts (published to the package
\* registry), and the directories apps/template-* (published as templates).
Packages == { StaticTable[i] : i \in 1..3 }
Templates == { StaticTable[i] : i \in 4..6 }

Min(a, b) == IF a < b THEN a ELSE b

\* The model's registry: NumProjects entries of the table, packages and
\* templates in turn, in the order of the table.
PickOrder == << 1, 4, 2, 5, 3, 6 >>
Picked == { StaticTable[PickOrder[i]] : i \in 1..Min(NumProjects, Len(StaticTable)) }
InRegistry(name) == name \in Picked
Keys == SelectSeq(StaticTable, InRegistry)

Projects == { Keys[i] : i \in 1..Len(Keys) }

\* A name that is no key of the table, and the absent positional argument.
UnknownName == "no-such-project"
NoName == "<none>"

\* A name that is no key of the table but a member every object literal
\* inherits: projects['constructor'] is the Object function.
InheritedName == "constructor"

\* projects[projectName] is truthy: an own key of the table, or an inherited
\* member.
Found(name) == name \in Projects \cup {InheritedName}

\* Places of the working tree that can hold an uncommitted change: each
\* project's path, and the rest of the repository.
Elsewhere == "<elsewhere>"
Places == Projects \cup {Elsewhere}

WriterCommits == { <<"w", k>> : k \in 1..MaxEvents }
LocalCommits == { <<"l", k>> : k \in 1..MaxEvents }

\* Signatures the script looks for in the message of a failed command.
MergeConflictSig == "merge conflict"
NeverAddedSig == "was never added"
PrefixSig == "prefix '"
Signatures == {MergeConflictSig, NeverAddedSig, PrefixSig}

VARIABLES
  \* the parent repository
  added,        \* project -> the prefix was added as a squashed subtree
  dirExists,    \* project -> the directory project.path exists
  backup,       \* project -> the directory <path>.backup-<timestamp>: "none",
                \* "untracked" (just copied) or "committed"
  dirty,        \* the places with an uncommitted (modified/staged/untracked) change
  local,        \* project -> commits of the history split from the prefix
  \* the standalone repositories
  remote,       \* project -> commits of the remote main line
  made,         \* every commit identifier created so far
  events,       \* how many things happened that the script did not do
  changed,      \* somebody other than the script changed a repository since the
                \* current (or last) syncSubtree call started
  \* the process
  top,          \* what is running: "idle", "main", "library", "publish",
                \* "publish-template"
  runs,         \* command lines started so far
  registry,     \* the projects object and the scan of apps/ that completes it
  argv,         \* the arguments main was started with
  exit,         \* process exit status of the last main: NoExit, 0 or 1
  \* the publish generators
  pstep,        \* the action of the pipeline that runs next (0: none)
  pub,          \* the answers and what the pipeline did
  \* syncAll
  idx,          \* position of the for loop in Object.keys(projects)
  results,      \* the results array
  \* the current syncSubtree call
  pc,           \* position in syncSubtree / hasLocalChanges
  cur,          \* projectName
  opt,          \* options {pullOnly, pushOnly, force}
  err,          \* message kind of the error thrown by the call ("" if none)
  said,         \* the last result line the call printed
  log,          \* the commands the call has issued, in order
  flags         \* call-local facts: what the call has done so far

repoVars == <<added, dirExists, backup, dirty, local>>
callVars == <<pc, cur, opt, err, said, log, flags>>
allVars == <<idx, results>>
procVars == <<top, runs, argv, exit, registry>>
pubVars == <<pstep, pub>>
vars == <<added, dirExists, backup, dirty, local, remote, made, events, changed,
          top, runs, registry, argv, exit, pstep, pub, idx, results,
          pc, cur, opt, err, said, log, flags>>

\* The value of exit while no process has exited.
NoExit == 2

Options == [pullOnly : BOOLEAN, pushOnly : BOOLEAN, force : BOOLEAN]

NoFlags ==
  [ pullReturned |-> FALSE,  \* 'git subtree pull' was issued and has returned
    pullDone     |-> FALSE,  \* the pull, or the first-time add, succeeded
    checked      |-> FALSE,  \* hasLocalChanges was entered
    dirRemoved   |-> FALSE,  \* rm -rf removed the directory in this call
    copied       |-> FALSE,  \* cp -R created the backup in this call
    committed    |-> FALSE,  \* the call created a commit in the parent repository
    tempBranch   |-> FALSE,  \* the force-push-* branch exists
    wrote        |-> FALSE,  \* a push of the call changed the remote main line
    conflict     |-> FALSE,  \* the pull stopped on a merge conflict
    envFault     |-> FALSE,  \* a command failed for a cause outside the repositories
    prefixExists |-> FALSE,  \* the message of the failed first add held "prefix '"
    checkBranch  |-> FALSE,  \* a temp-check-* branch of the change check exists
    checkRemote  |-> FALSE,  \* the remote temp-<name> of the change check exists
    cleanupFailed |-> FALSE, \* a clean-up command of the change check failed on
                             \* something that was there to remove
    repeat       |-> FALSE ] \* the call repeats the previous, successful call with
                             \* nothing changed in between (and no command of
                             \* that call failed for an outside cause)

\* (Variant with a fault: the status is asked for the project directories only.)
RepoDirtyInProjects == dirty \cap Projects # {}

\* git status --porcelain over the whole repository: an untracked backup
\* directory is reported like any other uncommitted change.
RepoDirty == dirty # {} \/ \E p \in Projects : backup[p] = "untracked"

\* The version in the manifest (package.json) of the project to publish.
BaseVersion == << "1", ".", "4", ".", "9" >>

\* The parent repository as a value.
RepoState ==
  [added |-> added, dirExists |-> dirExists, backup |-> backup,
   dirty |-> dirty, local |-> local]

NoPublish ==
  [ project   |-> NoName,
    confirmed |-> FALSE,
    bumpType  |-> "",      \* the answer to the bump prompt
    input     |-> << >>,   \* the numbers the manifest version was written from
    manifest  |-> BaseVersion, \* the version of <path>/package.json as committed at
                           \* first, and as step 3 rewrote it
    bumped    |-> FALSE,   \* bumpVersion was called on the answers
    bumpThrew |-> FALSE,   \* ... and threw
    newVersion |-> << >>,  \* const newVersion of actions(data)
    message   |-> << >>,   \* the version named in the message of the step-4 commit
    ran       |-> << >>,   \* the steps that were started, in order
    before    |-> << >>,   \* the parent repository when the pipeline started
    failedAt  |-> 0,       \* the step that threw (0: none)
    wrote     |-> FALSE,   \* step 3 rewrote the manifest
    committed |-> FALSE,   \* step 4 committed
    pushed    |-> FALSE,   \* step 5 pushed the parent repository
    built     |-> FALSE,   \* npm run build succeeded
    published |-> FALSE,   \* npm publish succeeded
    summary   |-> FALSE,   \* the last action printed the summary
    cancelled |-> FALSE ]  \* the only action is the cancellation message

\* --------------------------------------------------------------- start-up
\* The entries of the static table: name, path (directory and name) and
\* description.
StaticEntry(i) ==
  [ name |-> StaticTable[i],
    path |-> << (IF i <= 3 THEN "packages" ELSE "apps"), StaticTable[i] >>,
    description |-> << "static", StaticTable[i] >> ]

StaticProjects(keys) ==
  [ k \in keys |-> StaticEntry(CHOOSE i \in 1..Len(StaticTable) : StaticTable[i] = k) ]

\* What readdirSync('apps') may list: a directory with the id of a static
\* entry, a new template directory, and names that do not start with
\* 'template-'; each as a directory or as a file.
EntryNames == { "template-express-no-auth", "template-x", "template", "docs" }

\* The characters of a name.
Chars(name) ==
  CASE name = "template-express-no-auth" ->
         << "t", "e", "m", "p", "l", "a", "t", "e", "-", "e", "x", "p", "r", "e",
            "s", "s", "-", "n", "o", "-", "a", "u", "t", "h" >>
    [] name = "template-x" -> << "t", "e", "m", "p", "l", "a", "t", "e", "-", "x" >>
    [] name = "template" -> << "t", "e", "m", "p", "l", "a", "t", "e" >>
    [] OTHER -> << "d", "o", "c", "s" >>

TemplatePrefix == << "t", "e", "m", "p", "l", "a", "t", "e", "-" >>

\* (Variant with a fault: every name passes the prefix test.)
StartsWithAnything(s, prefix) == TRUE

\* s.startsWith(prefix)
StartsWith(s, prefix) ==
  Len(s) >= Len(prefix) /\ SubSeq(s, 1, Len(prefix)) = prefix

\* The entry loadTemplatesToProjects builds for a template directory: the
\* description of its template.json when that holds one, '<name> template'
\* otherwise.
DynamicEntry(e) ==
  [ name |-> e.name,
    path |-> << "apps", e.name >>,
    description |-> IF e.described THEN << "template.json", e.name >>
                    ELSE << "default", e.name >> ]

\* The registry of a process whose apps/ holds nothing to discover.
NoScan(keys) ==
  [ projects |-> StaticProjects(keys), entries |-> << >>, next |-> 1, readable |-> TRUE ]

InitOutsideRegistry ==
  /\ added \in [Projects -> BOOLEAN]
  /\ dirExists = [p \in Projects |-> TRUE]
  /\ backup = [p \in Projects |-> "none"]
  /\ dirty = {}
  /\ local = [p \in Projects |-> {}]
  /\ remote = [p \in Projects |-> {}]
  /\ made = {}
  /\ events = 0
  /\ changed = FALSE
  /\ top = "idle"
  /\ runs = 0
  /\ argv = [name |-> NoName, all |-> FALSE,
             pullOnly |-> FALSE, pushOnly |-> FALSE, force |-> FALSE]
  /\ exit = NoExit
  /\ pstep = 0
  /\ idx = 0
  /\ results = << >>
  /\ pc = "none"
  /\ cur = NoName
  /\ opt = [pullOnly |-> FALSE, pushOnly |-> FALSE, force |-> FALSE]
  /\ err = ""
  /\ said = ""
  /\ log = << >>
  /\ flags = NoFlags

InitOutsidePublish ==
  /\ InitOutsideRegistry
  /\ registry = NoScan(Projects)

Init ==
  /\ InitOutsidePublish
  /\ pub = NoPublish

\* ------------------------------------------------------------ environment
\* The operator prepares the working tree before running a command: edits a
\* file without committing it ...
Edit ==
  /\ top = "idle" /\ runs = 0
  /\ dirty = {}
  /\ \E x \in Places : dirty' = {x}
  /\ UNCHANGED <<added, dirExists, backup, local, remote, made, events, changed>>
  /\ UNCHANGED <<procVars, pubVars, allVars, callVars>>

\* ... or commits a change under a project's path in the parent repository.
LocalCommit ==
  /\ top = "idle" /\ runs = 0
  /\ \E p \in Projects, c \in LocalCommits \ made :
       /\ c[2] = Cardinality(made \cap LocalCommits) + 1
       /\ local' = [local EXCEPT ![p] = @ \cup {c}]
       /\ made' = made \cup {c}
  /\ events < MaxEvents /\ events' = events + 1
  /\ UNCHANGED <<added, dirExists, backup, dirty, remote, changed>>
  /\ UNCHANGED <<procVars, pubVars, allVars, callVars>>

\* A finished single-project command can be run again.
CanRerun ==
  /\ top = "idle"
  /\ runs >= 1 /\ events < MaxEvents
  /\ pub.project = NoName
  /\ ~argv.all /\ argv.name \in Projects

\* Somebody else pushes a commit to a project's standalone repository, before
\* the command or in the middle of a sync.  A syncSubtree call reads and writes
\* the standalone repository of its own project only, so a push to another
\* project during the call is the same as that push later.  A push is seen by the
\* script only through the next command that reads that repository, so a push
\* between two calls is the same as that push at the start of the next call on
\* its project, and a push at the start of the first call on a project is the
\* same as that push before the command.
InCall == pc \in {"start", "pull", "add", "backup", "prepare", "addRetry",
                  "hlcStatus", "hlcRemote", "push",
                  "forceSplit", "forcePush", "forceCleanup"}

\* The call now starting is not the first one of this run on its project: a
\* repeated command, or step 6 of publish after the pre-sync pull of step 2.
ReadBefore == runs >= 2 \/ pstep = 6

WriterPush ==
  /\ (top = "idle" /\ runs = 0) \/ InCall
  /\ \E p \in Projects, c \in WriterCommits \ made :
       /\ InCall => p = cur /\ (pc = "start" => ReadBefore)
       /\ c[2] = Cardinality(made \cap WriterCommits) + 1
       /\ remote' = [remote EXCEPT ![p] = @ \cup {c}]
       /\ made' = made \cup {c}
  /\ changed' = TRUE
  /\ events < MaxEvents /\ events' = events + 1
  /\ UNCHANGED <<repoVars, procVars, pubVars, allVars, callVars>>

\* ------------------------------------------------------------ syncSubtree
\* const { pullOnly = false, pushOnly = false, force = false } = options;
\* the decisions syncSubtree takes on them.
\* (Variants with a fault, for checking that the properties below see it: the
\* guard skipped for --push-only, the pull skipped under --force, the force
\* path taken whatever the options, or also for --push-only.)
GuardAppliesUnlessPushOnly(o) == ~o.force /\ ~o.pushOnly
SkipsPullForced(o) == o.pushOnly \/ o.force
MayForcePushAlways(o) == TRUE
MayForcePushOnPushOnly(o) == o.force \/ o.pushOnly
\* (And: --pull-only ignored under --force; every pull failure let through.)
StopsAfterPullUnlessForce(o) == o.pullOnly /\ ~o.force
\* (And: --pull-only ignored next to --push-only.)
StopsAfterPullUnlessPushOnly(o) == o.pullOnly /\ ~o.pushOnly
ContinuesAlways(o) == TRUE

GuardApplies(o) == ~o.force
SkipsPull(o) == o.pushOnly
StopsAfterPull(o) == o.pullOnly
MayForcePush(o) == o.force
ContinuesAfterPullFailure(o) == o.force

\* (Variant with a fault: the conflict signature is not looked for.)
ClassifyPullErrorNoConflict(msg) ==
  IF NeverAddedSig \in msg THEN "neverAdded" ELSE "other"

\* The catch block of the pull: which branch a failure message takes.
ClassifyPullError(msg) ==
  IF MergeConflictSig \in msg THEN "conflict"
  ELSE IF NeverAddedSig \in msg THEN "neverAdded"
  ELSE "other"

\* (Variant with a fault: every failure of the add is taken for an existing
\* prefix.)
ClassifyAddErrorAlwaysPrefix(msg) == "prefixExists"

\* The catch block of the first subtree add.
ClassifyAddError(msg) == IF PrefixSig \in msg THEN "prefixExists" ELSE "other"

\* (Variant with a fault: a call that does not stop after the pull pulls again.)
AfterPullAgain(o) == IF StopsAfterPull(o) THEN "returned" ELSE "pull"

\* Where the call goes once the pull block is behind it: 'if (pullOnly) return
\* true', else hasLocalChanges.
AfterPull(o) == IF StopsAfterPull(o) THEN "returned" ELSE "hlcStatus"
SaidAfterPull(o) == IF StopsAfterPull(o) THEN "pull completed" ELSE said

\* (Variant with a fault: the log of the split history is taken to be empty.)
CommitsToPushNone(split, remoteMain) == {}

\* hasLocalChanges' second signal: git log <split> ^temp-<name>/main --oneline.
CommitsToPush(split, remoteMain) == split \ remoteMain

\* What the backend accepts as a plain push: a fast-forward of the remote.
FastForward(p) == dirExists[p] /\ remote[p] \subseteq local[p]

\* The backend adds a subtree only at a prefix that does not exist, in a tree
\* without modifications under it.
CanAdd(p) == ~dirExists[p] /\ p \notin dirty

\* n commands of the step fail for a cause outside the repositories.
Outside(n) ==
  /\ events + n <= MaxEvents
  /\ events' = events + n

Count(b) == IF b THEN 1 ELSE 0

\* What no step of syncSubtree changes.
CallFrame ==
  UNCHANGED <<made, changed, top, runs, registry, argv, exit, pstep, pub, idx, results, cur, opt>>

\* syncSubtree(projectName, options) is entered.
StartCall(p, o) ==
  /\ pc' = "start"
  /\ cur' = p
  /\ opt' = o
  /\ err' = ""
  /\ said' = ""
  /\ log' = << >>
  /\ flags' = [NoFlags EXCEPT !.repeat =
                 /\ pc = "returned" /\ cur = p /\ opt = o
                 /\ ~changed /\ ~flags.envFault]
  /\ changed' = FALSE

Throw(kind) == pc' = "threw" /\ err' = kind

\* Lines 151-166: the registry lookup, the working-tree guard, the pushOnly test.
SyncGuard ==
  /\ pc = "start"
  /\ IF ~Found(cur)
       THEN /\ Throw("unknown project")
            /\ UNCHANGED <<said, log>>
       ELSE /\ log' = IF GuardApplies(opt) THEN Append(log, "status") ELSE log
            /\ IF GuardApplies(opt) /\ RepoDirty
                 THEN Throw("dirty working tree") /\ UNCHANGED said
                 ELSE /\ pc' = IF SkipsPull(opt) THEN AfterPull(opt) ELSE "pull"
                      /\ said' = IF SkipsPull(opt) THEN SaidAfterPull(opt) ELSE said
                      /\ UNCHANGED err
  /\ UNCHANGED <<repoVars, remote, events, flags>>
  /\ CallFrame

\* Line 170, success: the remote main line is squash-merged into the prefix.
PullOk ==
  /\ pc = "pull" /\ cur \in Projects
  /\ added[cur] /\ dirExists[cur]
  /\ log' = Append(log, "subtree pull")
  /\ local' = [local EXCEPT ![cur] = @ \cup remote[cur]]
  /\ flags' = [flags EXCEPT !.pullReturned = TRUE, !.pullDone = TRUE,
                            !.committed = @ \/ ~(remote[cur] \subseteq local[cur])]
  /\ pc' = AfterPull(opt)
  /\ said' = SaidAfterPull(opt)
  /\ UNCHANGED <<added, dirExists, backup, dirty, remote, events, err>>
  /\ CallFrame

\* Line 170 fails and the catch block of lines 172-220 runs.  The message of
\* the failure holds any of the signatures; the backend reports 'was never
\* added' only for a prefix that was not added, and a merge conflict only when
\* there was something to merge; a conflict leaves unmerged files behind.
PullFails ==
  /\ pc = "pull" /\ cur \in Projects
  /\ \E msg \in SUBSET {MergeConflictSig, NeverAddedSig} :
       /\ NeverAddedSig \in msg => ~added[cur]
       /\ MergeConflictSig \in msg =>
            added[cur] /\ dirExists[cur] /\ ~(remote[cur] \subseteq local[cur])
       /\ Outside(Count(msg = {}))
       /\ dirty' = IF MergeConflictSig \in msg THEN dirty \cup {cur} ELSE dirty
       /\ flags' = [flags EXCEPT !.pullReturned = TRUE,
                                 !.conflict = MergeConflictSig \in msg,
                                 !.envFault = @ \/ msg = {}]
       /\ CASE ClassifyPullError(msg) = "conflict" ->
                 Throw("merge conflicts") /\ UNCHANGED said
            [] ClassifyPullError(msg) = "neverAdded" ->
                 pc' = "add" /\ UNCHANGED <<err, said>>
            [] OTHER ->
                 IF ContinuesAfterPullFailure(opt)
                   THEN /\ pc' = AfterPull(opt)
                        /\ said' = SaidAfterPull(opt)
                        /\ UNCHANGED err
                   ELSE Throw("pull failed") /\ UNCHANGED said
  /\ log' = Append(log, "subtree pull")
  /\ UNCHANGED <<added, dirExists, backup, local, remote>>
  /\ CallFrame

\* Line 170 for the inherited member, which has neither path nor subtreeRemote:
\* 'git subtree pull --prefix=undefined undefined main --squash' fails, with
\* neither signature, and the call, made with force = false, rethrows.
PullNoProject ==
  /\ pc = "pull" /\ cur \notin Projects
  /\ ~ContinuesAfterPullFailure(opt)
  /\ log' = Append(log, "subtree pull")
  /\ flags' = [flags EXCEPT !.pullReturned = TRUE]
  /\ Throw("pull failed") /\ UNCHANGED said
  /\ UNCHANGED <<repoVars, remote, events>>
  /\ CallFrame

\* A successful 'git subtree add --squash': the prefix holds the remote main
\* line, and the call goes on as after a pull (lines 211-212).
AddSucceeds ==
  /\ CanAdd(cur)
  /\ added' = [added EXCEPT ![cur] = TRUE]
  /\ dirExists' = [dirExists EXCEPT ![cur] = TRUE]
  /\ local' = [local EXCEPT ![cur] = remote[cur]]
  /\ flags' = [flags EXCEPT !.pullDone = TRUE, !.committed = TRUE]
  /\ pc' = AfterPull(opt)
  /\ said' = SaidAfterPull(opt)
  /\ UNCHANGED <<events, err>>

\* Line 186: the first subtree add and its catch block (lines 188-209).
SubtreeAdd ==
  /\ pc = "add"
  /\ log' = Append(log, "subtree add")
  /\ \/ AddSucceeds
     \/ /\ \E msg \in SUBSET {PrefixSig} :
             /\ PrefixSig \in msg => dirExists[cur]
             /\ Outside(Count(msg = {} /\ CanAdd(cur)))
             /\ flags' = [flags EXCEPT !.envFault = @ \/ (msg = {} /\ CanAdd(cur)),
                                       !.prefixExists = PrefixSig \in msg]
             /\ IF ClassifyAddError(msg) = "prefixExists"
                  THEN pc' = "backup" /\ UNCHANGED err
                  ELSE Throw("failed to initialize subtree")
        /\ UNCHANGED <<added, dirExists, local, said>>
  /\ UNCHANGED <<backup, dirty, remote>>
  /\ CallFrame

\* Lines 192-197: mkdir -p and cp -R to <path>.backup-<timestamp>, both run
\* with throwOnError = false, so a failed copy is ignored.
BackupCopy ==
  /\ pc = "backup"
  /\ \E ok \in BOOLEAN :
       /\ Outside(Count(~ok))
       /\ backup' = [backup EXCEPT ![cur] = IF ok THEN "untracked" ELSE @]
       /\ flags' = [flags EXCEPT !.copied = ok, !.envFault = @ \/ ~ok]
  /\ log' = log \o << "mkdir", "cp" >>
  /\ pc' = "prepare"
  /\ UNCHANGED <<added, dirExists, dirty, local, remote, err, said>>
  /\ CallFrame

\* Lines 200-203: git rm -r --cached, rm -rf and git commit, each run with
\* throwOnError = false.  Untracking stages a deletion under the prefix; the
\* commit, when it succeeds, records it.
PreparePrefix ==
  /\ pc = "prepare"
  /\ \E untracked \in BOOLEAN, removed \in BOOLEAN, commitOk \in BOOLEAN :
       /\ commitOk => untracked
       /\ Outside(Count(~untracked) + Count(~removed) + Count(untracked /\ ~commitOk))
       /\ dirExists' = [dirExists EXCEPT ![cur] = @ /\ ~removed]
       /\ dirty' = IF commitOk THEN dirty \ {cur}
                   ELSE IF untracked THEN dirty \cup {cur} ELSE dirty
       /\ flags' = [flags EXCEPT !.dirRemoved = removed,
                                 !.committed = @ \/ commitOk,
                                 !.envFault = @ \/ ~(untracked /\ removed /\ commitOk)]
  /\ log' = log \o << "git rm --cached", "rm -rf", "commit" >>
  /\ pc' = "addRetry"
  /\ UNCHANGED <<added, backup, local, remote, err, said>>
  /\ CallFrame

\* Line 205: the second subtree add; its failure leaves the catch block as it is.
SubtreeAddRetry ==
  /\ pc = "addRetry"
  /\ log' = Append(log, "subtree add")
  /\ \/ AddSucceeds
     \/ /\ Throw("subtree add failed")
        /\ Outside(Count(CanAdd(cur)))
        /\ flags' = [flags EXCEPT !.envFault = @ \/ CanAdd(cur)]
        /\ UNCHANGED <<added, dirExists, local, said>>
  /\ UNCHANGED <<backup, dirty, remote>>
  /\ CallFrame

\* -------------------------------------------------------- hasLocalChanges
\* Lines 111-116: git status --porcelain <path>; an uncommitted change under
\* the path is the first signal.
HlcStatus ==
  /\ pc = "hlcStatus"
  /\ log' = Append(log, "status path")
  /\ flags' = [flags EXCEPT !.checked = TRUE]
  /\ pc' = IF cur \in dirty THEN "push" ELSE "hlcRemote"
  /\ UNCHANGED <<repoVars, remote, events, err, said>>
  /\ CallFrame

\* (Variant with a fault: the catch block does not clean up.)
CleansUpOnSuccessOnly(path) == path = "try"

\* Lines 136-137 and 141-142: the end of the try block and the catch block
\* both run git branch -D and git remote remove.
CleansUp(path) == path \in {"try", "catch"}

\* Lines 118-147: temporary remote, fetch, split, log, clean-up.  A failure of
\* the remote add, the fetch or the split lands in the catch block, which
\* answers false; a failed log answers null, which is false as well.  The
\* remote exists once the remote add succeeded, the branch once the split did;
\* the two clean-up commands run with throwOnError = false, each whatever the
\* other did.
HlcRemote ==
  /\ pc = "hlcRemote"
  /\ \E fetchOk \in BOOLEAN, splitOk \in BOOLEAN, remoteAdded \in BOOLEAN,
        deleteOk \in BOOLEAN, removeOk \in BOOLEAN :
       LET path == IF splitOk THEN "try" ELSE "catch"
           deleted == CleansUp(path) /\ deleteOk
           removed == CleansUp(path) /\ removeOk
       IN
       /\ splitOk => fetchOk /\ dirExists[cur]
       /\ fetchOk => remoteAdded
       /\ deleteOk => splitOk
       /\ removeOk => remoteAdded
       /\ Outside(Count(~splitOk /\ dirExists[cur])
                   + Count(splitOk /\ ~deleteOk) + Count(remoteAdded /\ ~removeOk))
       /\ log' = log \o (<< "fetch" >>
                    \o (IF fetchOk THEN << "subtree split" >> ELSE << >>)
                    \o (IF splitOk THEN << "log" >> ELSE << >>)
                    \o (IF CleansUp(path)
                          THEN << "branch -D temp-check", "remote remove" >>
                          ELSE << >>))
       /\ flags' = [flags EXCEPT
                      !.envFault = @ \/ (~splitOk /\ dirExists[cur])
                                     \/ (splitOk /\ ~deleteOk)
                                     \/ (remoteAdded /\ ~removeOk),
                      !.checkBranch = splitOk /\ ~deleted,
                      !.checkRemote = remoteAdded /\ ~removed,
                      !.cleanupFailed = (splitOk /\ ~deleteOk)
                                          \/ (remoteAdded /\ ~removeOk)]
       /\ IF splitOk /\ CommitsToPush(local[cur], remote[cur]) # {}
            THEN pc' = "push" /\ UNCHANGED said
            ELSE pc' = "returned" /\ said' = "already up to date"
  /\ UNCHANGED <<repoVars, remote, err>>
  /\ CallFrame

\* ------------------------------------------------------------------- push
\* Line 239 succeeds: the backend fast-forwards the remote main line.
PushOk ==
  /\ pc = "push"
  /\ FastForward(cur)
  /\ log' = Append(log, "subtree push")
  /\ remote' = [remote EXCEPT ![cur] = local[cur]]
  /\ flags' = [flags EXCEPT !.wrote = TRUE]
  /\ pc' = "returned"
  /\ said' = "pushed"
  /\ UNCHANGED <<repoVars, events, err>>
  /\ CallFrame

\* Line 239 fails (rejected as no fast-forward, or for another cause) and the
\* catch block of lines 242-273 chooses between the force path and the throw.
PushFails ==
  /\ pc = "push"
  /\ log' = Append(log, "subtree push")
  /\ Outside(Count(FastForward(cur)))
  /\ flags' = [flags EXCEPT !.envFault = @ \/ FastForward(cur)]
  /\ IF MayForcePush(opt)
       THEN pc' = "forceSplit" /\ UNCHANGED err
       ELSE Throw("push failed")
  /\ UNCHANGED <<repoVars, remote, said>>
  /\ CallFrame

\* Lines 250-253: git subtree split --branch=force-push-<name>-<timestamp>.
ForceSplit ==
  /\ pc = "forceSplit"
  /\ log' = Append(log, "subtree split --branch")
  /\ \/ /\ dirExists[cur]
        /\ flags' = [flags EXCEPT !.tempBranch = TRUE]
        /\ pc' = "forcePush"
        /\ UNCHANGED <<err, events>>
     \/ /\ Throw("force push failed")
        /\ Outside(Count(dirExists[cur]))
        /\ flags' = [flags EXCEPT !.envFault = @ \/ dirExists[cur]]
  /\ UNCHANGED <<repoVars, remote, said>>
  /\ CallFrame

\* Line 256: git push <remote> <branch>:main --force replaces the remote main
\* line by the split history.
ForcePush ==
  /\ pc = "forcePush"
  /\ log' = Append(log, "push --force")
  /\ \/ /\ remote' = [remote EXCEPT ![cur] = local[cur]]
        /\ flags' = [flags EXCEPT !.wrote = TRUE]
        /\ pc' = "forceCleanup"
        /\ UNCHANGED <<err, events>>
     \/ /\ Throw("force push failed")
        /\ Outside(1)
        /\ flags' = [flags EXCEPT !.envFault = TRUE]
        /\ UNCHANGED remote
  /\ UNCHANGED <<repoVars, said>>
  /\ CallFrame

\* Line 259: git branch -D of the temporary branch, then the success lines.
ForceCleanup ==
  /\ pc = "forceCleanup"
  /\ log' = Append(log, "branch -D force-push")
  /\ \/ /\ flags' = [flags EXCEPT !.tempBranch = FALSE]
        /\ pc' = "returned"
        /\ said' = "force pushed"
        /\ UNCHANGED <<err, events>>
     \/ /\ Throw("force push failed")
        /\ Outside(1)
        /\ flags' = [flags EXCEPT !.envFault = TRUE]
        /\ UNCHANGED said
  /\ UNCHANGED <<repoVars, remote>>
  /\ CallFrame

CallOver == pc \in {"returned", "threw"}

\* A command for one project runs syncSubtree(name) alone, which builds every
\* git command from projects[name] (project.path, project.subtreeRemote)
\* and so never reads another project's history: such a command is started
\* with the other projects' histories empty.
OthersUntouched(name) ==
  \A p \in Projects \ {name} : local[p] = {} /\ remote[p] = {}

\* What syncSubtree hands to its caller: every return statement of the
\* function (lines 226, 232, 241, 263) returns the boolean true.
ReturnValue == IF pc = "returned" THEN "true" ELSE "none"

\* ---------------------------------------------------------------- syncAll
\* Lines 281-285: the for loop takes the next key and calls syncSubtree.
SyncAllNext ==
  /\ top = "main" /\ argv.all
  /\ pc \in {"none", "collected"}
  /\ idx < Len(Keys)
  /\ idx' = idx + 1
  /\ StartCall(Keys[idx + 1], [pullOnly |-> argv.pullOnly,
                               pushOnly |-> argv.pushOnly, force |-> argv.force])
  /\ UNCHANGED <<repoVars, remote, made, events, procVars, pubVars, results>>

\* (Variant with a fault: the loop stops at the first call that throws.)
LoopStopsOnFailure(threw) == ~threw

\* Lines 282-289: the try/catch around the call: the loop goes on after a call
\* that returned and after one that threw.
LoopContinues(threw) == TRUE

\* Lines 284-289: the value returned, or the error caught, becomes an entry of
\* results.
SyncAllCollect ==
  /\ top = "main" /\ argv.all
  /\ CallOver
  /\ IF LoopContinues(pc = "threw")
       THEN /\ results' = Append(results,
                 IF pc = "returned"
                   THEN [project |-> cur, success |-> TRUE, error |-> ""]
                   ELSE [project |-> cur, success |-> FALSE, error |-> err])
            /\ pc' = "collected"
            /\ UNCHANGED <<top, exit>>
       ELSE /\ exit' = 1
            /\ top' = "idle"
            /\ UNCHANGED <<results, pc>>
  /\ UNCHANGED <<repoVars, remote, made, events, changed, runs, registry, argv, pubVars, idx>>
  /\ UNCHANGED <<cur, opt, err, said, log, flags>>

\* Lines 292-308: the summary; syncAll returns failed.length === 0.
Failed(rs) == { i \in 1..Len(rs) : ~rs[i].success }

\* (Variant with a fault: true as soon as one project succeeded.)
SyncAllReturnAnySuccess(rs) == \E i \in 1..Len(rs) : rs[i].success

SyncAllReturn(rs) == Failed(rs) = {}

\* ------------------------------------------------------------------- main
\* The command lines tried: a project name (known, unknown or missing) with any
\* of --pull-only, --push-only, --force, or --all with any of them.
Args ==
  { a \in [name : Projects \cup {UnknownName, InheritedName, NoName}, all : BOOLEAN,
           pullOnly : BOOLEAN, pushOnly : BOOLEAN, force : BOOLEAN] :
      /\ a.all => a.name = NoName
      /\ (~a.all /\ a.name \notin Projects) =>
           ~a.pullOnly /\ ~a.pushOnly /\ ~a.force }

\* Lines 369-398: parseArgs, then --all, the missing name, the unknown name,
\* or the call of syncSubtree.
Main(a) ==
  /\ argv' = a
  /\ runs' = runs + 1
  /\ UNCHANGED registry
  /\ IF a.all
       THEN /\ top' = "main"
            /\ exit' = NoExit
            /\ idx' = 0
            /\ results' = << >>
            /\ pc' = "none"
            /\ UNCHANGED <<cur, opt, err, said, log, flags, changed>>
       ELSE IF ~Found(a.name)
         THEN /\ top' = "idle"
              /\ exit' = 1
              /\ pc' = "none"
              /\ UNCHANGED <<cur, opt, err, said, log, flags, changed>>
              /\ UNCHANGED allVars
         ELSE /\ top' = "main"
              /\ exit' = NoExit
              /\ StartCall(a.name, [pullOnly |-> a.pullOnly,
                                    pushOnly |-> a.pushOnly, force |-> a.force])
              /\ UNCHANGED allVars
  /\ UNCHANGED <<repoVars, remote, made, pubVars>>

\* The operator runs a command line ...
MainStart ==
  /\ top = "idle" /\ runs = 0
  /\ \E a \in Args : Main(a) /\ (~a.all => OthersUntouched(a.name))
  /\ UNCHANGED events

\* ... and runs the same command line again.
Rerun ==
  /\ CanRerun
  /\ Main(argv)
  /\ events' = events + 1

\* Another script requires the module and calls syncSubtree itself
\* (module.exports, line 409) with a name that is no key of the table.
LibraryCall ==
  /\ top = "idle" /\ runs = 0
  /\ OthersUntouched(NoName)
  /\ \E n \in {UnknownName, InheritedName}, o \in Options :
       /\ n = InheritedName => o = [pullOnly |-> FALSE, pushOnly |-> FALSE, force |-> FALSE]
       /\ StartCall(n, o)
  /\ top' = "library"
  /\ runs' = runs + 1
  /\ UNCHANGED registry
  /\ UNCHANGED <<repoVars, remote, made, events, argv, exit, pubVars, allVars>>

\* ... and gets the value back, or the error.
LibraryReturn ==
  /\ top = "library" /\ CallOver
  /\ top' = "idle"
  /\ UNCHANGED <<repoVars, remote, made, events, changed, runs, registry, argv, exit>>
  /\ UNCHANGED <<pubVars, allVars, callVars>>

\* Lines 372-379: process.exit(success ? 0 : 1) after syncAll.
MainExitAll ==
  /\ top = "main" /\ argv.all
  /\ pc \in {"none", "collected"}
  /\ idx = Len(Keys)
  /\ exit' = IF SyncAllReturn(results) THEN 0 ELSE 1
  /\ top' = "idle"
  /\ UNCHANGED <<repoVars, remote, made, events, changed, runs, registry, argv, pubVars, allVars, callVars>>

\* Lines 397-406: process.exit(0) after a call that returned, process.exit(1)
\* after one that threw.
MainExit ==
  /\ top = "main" /\ ~argv.all
  /\ CallOver
  /\ exit' = IF pc = "returned" THEN 0 ELSE 1
  /\ top' = "idle"
  /\ UNCHANGED <<repoVars, remote, made, events, changed, runs, registry, argv, pubVars, allVars, callVars>>

\* ---------------------------------------------------------------- versions
\* A string is a sequence of characters.  A number of the script is a value
\* with a tag: a number, NaN, or undefined (a missing array element).
Digit == << "0", "1", "2", "3", "4", "5", "6", "7", "8", "9" >>
DigitValue(c) == (CHOOSE i \in 1..10 : Digit[i] = c) - 1
IsDigit(c) == \E i \in 1..10 : Digit[i] = c

Num(n) == [t |-> "num", n |-> n]
NaN == [t |-> "NaN", n |-> 0]
Undefined == [t |-> "undefined", n |-> 0]

RECURSIVE ToStr(_)
\* `${n}` for a non-negative integer: its decimal digits.
ToStr(n) ==
  IF n < 10 THEN << Digit[n + 1] >>
  ELSE ToStr(n \div 10) \o << Digit[(n % 10) + 1] >>

\* `${x}` for a value.
Show(x) ==
  CASE x.t = "num" -> ToStr(x.n)
    [] x.t = "NaN" -> << "N", "a", "N" >>
    [] OTHER -> << "u", "n", "d", "e", "f", "i", "n", "e", "d" >>

RECURSIVE DigitsValue(_)
DigitsValue(s) ==
  IF s = << >> THEN 0
  ELSE 10 * DigitsValue(SubSeq(s, 1, Len(s) - 1)) + DigitValue(s[Len(s)])

\* Number(s) for a string of digits, dots and letters: the empty string is 0,
\* a string of digits is its decimal value, anything else is NaN.
ToNumber(s) ==
  IF \A i \in 1..Len(s) : IsDigit(s[i]) THEN Num(DigitsValue(s)) ELSE NaN

RECURSIVE Split(_)
\* s.split('.')
Split(s) ==
  IF s = << >> THEN << << >> >>
  ELSE LET rest == Split(Tail(s)) IN
         IF Head(s) = "." THEN << << >> >> \o rest
         ELSE << << Head(s) >> \o rest[1] >> \o Tail(rest)

\* x + 1
PlusOne(x) == IF x.t = "num" THEN Num(x.n + 1) ELSE NaN

\* const [major, minor, patch] = currentVersion.split('.').map(Number)
Component(version, i) ==
  LET parts == Split(version) IN
    IF i <= Len(parts) THEN ToNumber(parts[i]) ELSE Undefined

BumpTypes == {"major", "minor", "patch"}
Dot == << "." >>
Zero == << "0" >>

\* (Variant with a fault: a minor bump keeps the patch number.)
bumpVersionNoReset(currentVersion, bumpType) ==
  LET major == Component(currentVersion, 1)
      minor == Component(currentVersion, 2)
      patch == Component(currentVersion, 3)
  IN CASE bumpType = "major" ->
            [threw |-> FALSE, value |-> Show(PlusOne(major)) \o Dot \o Zero \o Dot \o Zero]
       [] bumpType = "minor" ->
            [threw |-> FALSE,
             value |-> Show(major) \o Dot \o Show(PlusOne(minor)) \o Dot \o Show(patch)]
       [] bumpType = "patch" ->
            [threw |-> FALSE,
             value |-> Show(major) \o Dot \o Show(minor) \o Dot \o Show(PlusOne(patch))]
       [] OTHER -> [threw |-> TRUE, value |-> << >>]

\* bumpVersion(currentVersion, bumpType): the string returned, or the throw of
\* the default branch.
bumpVersion(currentVersion, bumpType) ==
  LET major == Component(currentVersion, 1)
      minor == Component(currentVersion, 2)
      patch == Component(currentVersion, 3)
  IN CASE bumpType = "major" ->
            [threw |-> FALSE, value |-> Show(PlusOne(major)) \o Dot \o Zero \o Dot \o Zero]
       [] bumpType = "minor" ->
            [threw |-> FALSE, value |-> Show(major) \o Dot \o Show(PlusOne(minor)) \o Dot \o Zero]
       [] bumpType = "patch" ->
            [threw |-> FALSE,
             value |-> Show(major) \o Dot \o Show(minor) \o Dot \o Show(PlusOne(patch))]
       [] OTHER -> [threw |-> TRUE, value |-> << >>]

\* ------------------------------------------------- the publish generators
BumpCommit == << "b", 1 >>

PullOnlyArgs(name) == [name |-> name, all |-> FALSE,
                       pullOnly |-> TRUE, pushOnly |-> FALSE, force |-> FALSE]
PushOnlyArgs(name) == [name |-> name, all |-> FALSE,
                       pullOnly |-> FALSE, pushOnly |-> TRUE, force |-> FALSE]

\* (Variant with a fault: the registry step is left out of both pipelines.)
StepAfterNoRegistry(kind, k) == IF k = 6 THEN 8 ELSE k + 1

\* The action after step k: publish-template has no build-and-publish step.
StepAfter(kind, k) == IF kind = "publish-template" /\ k = 6 THEN 8 ELSE k + 1

Publishing == top \in {"publish", "publish-template"}

\* (Variant with a fault: a failing step undoes what the steps before it did.)
StepFailsRollingBack(k) ==
  /\ pub' = [pub EXCEPT !.failedAt = k,
                        !.ran = IF k \in {2, 6} THEN @ ELSE Append(@, k),
                        !.manifest = BaseVersion, !.wrote = FALSE,
                        !.committed = FALSE, !.pushed = FALSE]
  /\ pstep' = 0
  /\ top' = "idle"

\* An action throws: plop aborts the actions that follow.
StepFails(k) ==
  /\ pub' = [pub EXCEPT !.failedAt = k,
                        !.ran = IF k \in {2, 6} THEN @ ELSE Append(@, k)]
  /\ pstep' = 0
  /\ top' = "idle"

\* One commit of the other writers is a release made from the standalone
\* repository: the first they push sets the version of the manifest to 1.5.0;
\* their later commits leave the manifest alone.
ReleaseCommit == << "w", 1 >>
ReleaseVersion == << "1", ".", "5", ".", "0" >>

\* The version in the manifest of a checked-out history.
TreeVersion(history) ==
  IF ReleaseCommit \in history THEN ReleaseVersion ELSE BaseVersion

\* getCurrentVersion(project.path): the version of the manifest on disk (what
\* step 3 wrote, else what the history under the prefix holds), "0.0.0" when
\* it cannot be read.
getCurrentVersion(p) ==
  IF ~dirExists[p] THEN << "0", ".", "0", ".", "0" >>
  ELSE IF pub.wrote /\ p = pub.project THEN pub.manifest
  ELSE TreeVersion(local[p])

\* Line 709: const currentVersion = "dynamic".
Dynamic == << "d", "y", "n", "a", "m", "i", "c" >>

\* const newVersion = bumpVersion(currentVersion, data.bumpType), as actions(data)
\* computes it before any step runs: from the manifest in publish, from
\* "dynamic" in publish-template.
ClosureVersion(kind, name, bumpType) ==
  IF kind = "publish" THEN bumpVersion(getCurrentVersion(name), bumpType).value
  ELSE bumpVersion(Dynamic, bumpType).value

\* The version step 3 writes and the version step 4 names: the closure's
\* newVersion in publish; in publish-template each of the two steps reads the
\* manifest and bumps what it reads.
VersionAtStep(kind) ==
  IF kind = "publish" THEN pub.newVersion
  ELSE bumpVersion(getCurrentVersion(pub.project), pub.bumpType).value

\* (Variant with a fault: only missing answers cancel.)
CancelledWithoutAnswersOnly(given, confirmed) == ~given

\* Lines 509 and 694: if (!data || !data.confirmed).
Cancelled(given, confirmed) == ~given \/ ~confirmed

\* actions(data): the answers of the prompts, if any; without answers or
\* without the confirmation the only action is the cancellation message.
PublishStart ==
  /\ top = "idle" /\ runs = 0
  /\ \E kind \in {"publish", "publish-template"}, given \in BOOLEAN,
        confirmed \in BOOLEAN, bumpType \in BumpTypes :
       \E name \in (IF kind = "publish" THEN Packages ELSE Templates) \cap Projects :
         /\ OthersUntouched(name)
         /\ ~given => ~confirmed
         /\ pub' = IF ~given
                      THEN [NoPublish EXCEPT !.cancelled = TRUE, !.before = RepoState]
                      ELSE [NoPublish EXCEPT
                              !.project = name, !.confirmed = confirmed,
                              !.bumpType = bumpType,
                              !.cancelled = Cancelled(given, confirmed),
                              !.bumped = ~Cancelled(given, confirmed),
                              !.newVersion = IF ~Cancelled(given, confirmed)
                                               THEN ClosureVersion(kind, name, bumpType)
                                               ELSE << >>,
                              !.before = RepoState]
         /\ top' = IF ~Cancelled(given, confirmed) THEN kind ELSE "idle"
         /\ pstep' = IF ~Cancelled(given, confirmed) THEN 1 ELSE 0
  /\ runs' = runs + 1
  /\ UNCHANGED registry
  /\ UNCHANGED <<repoVars, remote, made, events, changed, argv, exit, allVars, callVars>>

\* Step 1: git status --porcelain must print nothing; publish also runs npm whoami.
PublishPrerequisites ==
  /\ Publishing /\ pstep = 1
  /\ \/ /\ ~RepoDirty
        /\ pstep' = 2
        /\ pub' = [pub EXCEPT !.ran = Append(@, 1)]
        /\ UNCHANGED <<top, events>>
     \/ /\ RepoDirty
        /\ StepFails(1)
        /\ UNCHANGED events
     \/ /\ ~RepoDirty /\ top = "publish"
        /\ Outside(1)
        /\ StepFails(1)
  /\ UNCHANGED <<repoVars, remote, made, changed, runs, registry, argv, exit, allVars, callVars>>

\* Steps 2 and 6 start node scripts/sync-subtree.js <name> --pull-only, resp.
\* --push-only: main, parseArgs and syncSubtree run in a child process.
PublishSyncStart ==
  /\ Publishing /\ pstep \in {2, 6}
  /\ ~CallOver /\ pc \in {"none", "consumed"}
  /\ argv' = IF pstep = 2 THEN PullOnlyArgs(pub.project) ELSE PushOnlyArgs(pub.project)
  /\ StartCall(pub.project, [pullOnly |-> pstep = 2, pushOnly |-> pstep = 6,
                             force |-> FALSE])
  /\ exit' = NoExit
  /\ pub' = [pub EXCEPT !.ran = Append(@, pstep)]
  /\ UNCHANGED <<repoVars, remote, made, events, top, runs, registry, pstep, allVars>>

\* The child exits with 0 or 1 (lines 397-406 of the script); a non-zero exit
\* makes execCommand throw, and the step fails.
PublishSyncEnd ==
  /\ Publishing /\ pstep \in {2, 6}
  /\ CallOver
  /\ exit' = IF pc = "returned" THEN 0 ELSE 1
  /\ pc' = "consumed"
  /\ IF pc = "returned"
       THEN pstep' = StepAfter(top, pstep) /\ UNCHANGED <<pub, top>>
       ELSE StepFails(pstep)
  /\ UNCHANGED <<repoVars, remote, made, events, changed, runs, registry, argv, allVars>>
  /\ UNCHANGED <<cur, opt, err, said, log, flags>>

\* Step 3: updateVersion rewrites <path>/package.json.
PublishUpdateVersion ==
  /\ Publishing /\ pstep = 3
  /\ \/ /\ dirExists[pub.project]
        /\ dirty' = dirty \cup {pub.project}
        /\ pub' = [pub EXCEPT !.wrote = TRUE, !.ran = Append(@, 3),
                              !.manifest = VersionAtStep(top)]
        /\ pstep' = 4
        /\ UNCHANGED <<top, events>>
     \/ /\ Outside(Count(dirExists[pub.project]))
        /\ StepFails(3)
        /\ UNCHANGED dirty
  /\ UNCHANGED <<added, dirExists, backup, local, remote, made, changed>>
  /\ UNCHANGED <<runs, registry, argv, exit, allVars, callVars>>

\* Step 4: git add -A stages everything that is uncommitted, backup directories
\* included, and git commit records it under 'chore(<name>): bump version to
\* <version>'.
PublishCommit ==
  /\ Publishing /\ pstep = 4
  /\ \/ /\ dirty' = {}
        /\ backup' = [p \in Projects |->
                        IF backup[p] = "untracked" THEN "committed" ELSE backup[p]]
        /\ local' = [local EXCEPT ![pub.project] = @ \cup {BumpCommit}]
        /\ made' = made \cup {BumpCommit}
        /\ pub' = [pub EXCEPT !.committed = TRUE, !.ran = Append(@, 4),
                              !.message = VersionAtStep(top)]
        /\ pstep' = 5
        /\ UNCHANGED <<top, events>>
     \/ /\ Outside(1)
        /\ StepFails(4)
        /\ UNCHANGED <<dirty, backup, local, made>>
  /\ UNCHANGED <<added, dirExists, remote, changed>>
  /\ UNCHANGED <<runs, registry, argv, exit, allVars, callVars>>

\* Step 5: git push origin main.
PublishPushMain ==
  /\ Publishing /\ pstep = 5
  /\ \/ /\ pub' = [pub EXCEPT !.pushed = TRUE, !.ran = Append(@, 5)]
        /\ pstep' = 6
        /\ UNCHANGED <<top, events>>
     \/ /\ Outside(1)
        /\ StepFails(5)
  /\ UNCHANGED <<repoVars, remote, made, changed, runs, registry, argv, exit, allVars, callVars>>

\* (Variant with a fault: a failed build fails the step.)
RegistryStepThrowsOnBuild(buildOk, publishOk) == ~buildOk \/ ~publishOk

\* Lines 597-604: the inner try/catch swallows the failure of npm run build;
\* the failure of npm publish reaches the outer catch, which rethrows.
RegistryStepThrows(buildOk, publishOk) == ~publishOk

\* Step 7 of publish: npm run build, whose failure is swallowed, then npm
\* publish --access public.
PublishToRegistry ==
  /\ top = "publish" /\ pstep = 7
  /\ \E buildOk \in BOOLEAN, publishOk \in BOOLEAN :
       /\ Outside(Count(~buildOk) + Count(~publishOk))
       /\ IF ~RegistryStepThrows(buildOk, publishOk)
            THEN /\ pub' = [pub EXCEPT !.built = buildOk, !.published = publishOk,
                                       !.ran = Append(@, 7)]
                 /\ pstep' = 8
                 /\ UNCHANGED top
            ELSE /\ pub' = [pub EXCEPT !.built = buildOk, !.published = publishOk,
                                       !.failedAt = 7, !.ran = Append(@, 7)]
                 /\ pstep' = 0
                 /\ top' = "idle"
  /\ UNCHANGED <<repoVars, remote, made, changed, runs, registry, argv, exit, allVars, callVars>>

\* The last action: the summary.
PublishSummary ==
  /\ Publishing /\ pstep = 8
  /\ pub' = [pub EXCEPT !.summary = TRUE, !.ran = Append(@, 8)]
  /\ pstep' = 0
  /\ top' = "idle"
  /\ UNCHANGED <<repoVars, remote, made, events, changed>>
  /\ UNCHANGED <<runs, registry, argv, exit, allVars, callVars>>

Next ==
  \/ Edit \/ LocalCommit \/ WriterPush
  \/ MainStart \/ Rerun \/ MainExit \/ MainExitAll
  \/ LibraryCall \/ LibraryReturn
  \/ PublishStart \/ PublishPrerequisites \/ PublishSyncStart \/ PublishSyncEnd
  \/ PublishUpdateVersion \/ PublishCommit \/ PublishPushMain
  \/ PublishToRegistry \/ PublishSummary
  \/ SyncAllNext \/ SyncAllCollect
  \/ SyncGuard \/ PullOk \/ PullFails \/ PullNoProject
  \/ SubtreeAdd \/ BackupCopy \/ PreparePrefix \/ SubtreeAddRetry
  \/ HlcStatus \/ HlcRemote
  \/ PushOk \/ PushFails \/ ForceSplit \/ ForcePush \/ ForceCleanup

Spec == Init /\ [][Next]_vars

\* execCommand runs every command with execSync, which blocks until the
\* command has ended, and syncSubtree has no loop: a call that was entered goes
\* on to its next step.
SyncStep ==
  \/ SyncGuard \/ PullOk \/ PullFails \/ PullNoProject
  \/ SubtreeAdd \/ BackupCopy \/ PreparePrefix \/ SubtreeAddRetry
  \/ HlcStatus \/ HlcRemote
  \/ PushOk \/ PushFails \/ ForceSplit \/ ForcePush \/ ForceCleanup

\* One command line for one project, from the trees the operator and the other
\* writers can have prepared, with the other writers pushing during the call.
CallNext ==
  \/ Edit \/ LocalCommit \/ WriterPush
  \/ MainStart
  \/ SyncStep

CallSpec == Init /\ [][CallNext]_vars /\ WF_callVars(SyncStep)

\* ------------------------------------------------ bumpVersion on its own
\* The version computation of the generators over every manifest version
\* 'M.m.p' with components up to MaxComponent and every bump kind, one that
\* the prompt does not offer included.
MaxComponent == 10
OtherBump == "prerelease"

VersionString(M, m, p) == ToStr(M) \o Dot \o ToStr(m) \o Dot \o ToStr(p)

BumpInit ==
  /\ InitOutsidePublish
  /\ \E M \in 0..MaxComponent, m \in 0..MaxComponent, p \in 0..MaxComponent,
        k \in BumpTypes \cup {OtherBump} :
       pub = [NoPublish EXCEPT !.input = << M, m, p >>,
                               !.manifest = VersionString(M, m, p),
                               !.bumpType = k]

\* const newVersion = bumpVersion(currentVersion, data.bumpType)
ComputeBump ==
  /\ ~pub.bumped
  /\ LET r == bumpVersion(pub.manifest, pub.bumpType) IN
       pub' = [pub EXCEPT !.bumped = TRUE, !.bumpThrew = r.threw,
                          !.newVersion = r.value]
  /\ UNCHANGED <<repoVars, remote, made, events, changed>>
  /\ UNCHANGED <<procVars, pstep, allVars, callVars>>

BumpNext == ComputeBump

BumpSpec == BumpInit /\ [][BumpNext]_vars

\* ------------------------------------- loadTemplatesToProjects on its own
\* The start-up of the script over every listing of apps/ with up to
\* MaxEntries entries: files and directories, with and without a described
\* template.json, and the listing that cannot be read.
MaxEntries == 2

Entries == [name : EntryNames, isDir : BOOLEAN, described : BOOLEAN]

Listings ==
  { l \in UNION { [1..n -> Entries] : n \in 0..MaxEntries } :
      \A i, j \in 1..Len(l) : l[i].name = l[j].name => i = j }

RegistryInit ==
  /\ InitOutsideRegistry
  /\ pub = NoPublish
  /\ \E l \in Listings, readable \in BOOLEAN :
       registry = [NoScan({ StaticTable[i] : i \in 1..Len(StaticTable) })
                     EXCEPT !.entries = l, !.readable = readable]

\* Lines 59-79: one turn of the for loop over the entries.
LoadEntry ==
  /\ registry.readable
  /\ registry.next <= Len(registry.entries)
  /\ LET e == registry.entries[registry.next]
         P == registry.projects
     IN registry' =
          [registry EXCEPT
             !.next = @ + 1,
             !.projects =
               IF ~e.isDir THEN P
               ELSE IF ~StartsWith(Chars(e.name), TemplatePrefix) THEN P
               ELSE IF e.name \in DOMAIN P THEN P
               ELSE [k \in DOMAIN P \cup {e.name} |->
                       IF k = e.name THEN DynamicEntry(e) ELSE P[k]]]
  /\ UNCHANGED <<repoVars, remote, made, events, changed>>
  /\ UNCHANGED <<top, runs, argv, exit, pubVars, allVars, callVars>>

\* Lines 56-57, 81-83: readdirSync throws (no apps/ directory) and the catch
\* block does nothing.
LoadFails ==
  /\ ~registry.readable
  /\ registry.next <= Len(registry.entries)
  /\ registry' = [registry EXCEPT !.next = Len(registry.entries) + 1]
  /\ UNCHANGED <<repoVars, remote, made, events, changed>>
  /\ UNCHANGED <<top, runs, argv, exit, pubVars, allVars, callVars>>

RegistryNext == LoadEntry \/ LoadFails

RegistrySpec == RegistryInit /\ [][RegistryNext]_vars

\* ============================================================== properties
Issued(c) == \E i \in 1..Len(log) : log[i] = c
PushCommands == {"subtree push", "push --force"}
ForcePath == {"forceSplit", "forcePush", "forceCleanup"}

\* C1: in a call with pushOnly = false, every push command ('git subtree push'
\* or 'git push --force') the call has issued comes after the 'git subtree pull'
\* of that call, which has been issued and has returned.
C1_PullBeforePush ==
  (cur \in Projects /\ ~opt.pushOnly) =>
    \A i \in 1..Len(log) :
      log[i] \in PushCommands =>
        /\ flags.pullReturned
        /\ \E j \in 1..(i - 1) : log[j] = "subtree pull"

\* A call without --push-only that pulled and then pushed to the remote.
C1_Witness ==
  /\ ~opt.pushOnly /\ flags.pullReturned
  /\ Issued("subtree push") /\ flags.wrote /\ pc = "returned"

\* C2: when 'git subtree push' fails in a call with force = false, the call
\* throws (push failed), has issued no force push, and neither that step nor
\* any earlier step of the call has written the remote main line.
C2_FailedPushThrows ==
  [][ (pc = "push" /\ ~opt.force /\ pc' \notin {"push", "returned"}) =>
        /\ pc' = "threw" /\ err' = "push failed"
        /\ remote' = remote
        /\ ~flags'.wrote
        /\ \A i \in 1..Len(log') : log'[i] # "push --force" ]_vars

\* The backend rejected the push of a force = false call: the remote main line
\* holds a commit that the local history lacks.
C2_Witness ==
  /\ pc = "threw" /\ err = "push failed" /\ ~opt.force
  /\ ~(remote[cur] \subseteq local[cur])

\* C3: 'git push ... --force' is issued, and the force path entered, only in a
\* syncSubtree call with force = true; a publish or publish-template pipeline
\* never issues it, whichever of its steps fails.
C3_ForcePushOnlyWithForce ==
  /\ (Issued("push --force") \/ pc \in ForcePath) => opt.force
  /\ pub.project # NoName => ~Issued("push --force") /\ pc \notin ForcePath /\ ~opt.force

\* syncAll --force replaced the remote main line of a project by a force push.
C3_Witness ==
  /\ argv.all /\ opt.force
  /\ Issued("push --force") /\ flags.wrote

\* C4: no step taken while the current call has force = false, and no push by
\* another writer, removes a commit from a remote main line.
C4_RemoteOnlyGrows ==
  [][ ~opt.force => \A p \in Projects : remote[p] \subseteq remote'[p] ]_vars

\* Another writer pushed between the pull and the push of a force = false call:
\* the push was rejected and the writer's commit is still on the remote.
C4_Witness ==
  /\ pc = "threw" /\ err = "push failed" /\ ~opt.force
  /\ flags.pullDone /\ changed
  /\ (remote[cur] \ local[cur]) \cap WriterCommits # {}

\* C5: when the pull fails with the merge-conflict signature, the call throws
\* the manual-resolution error, whatever force is: it has issued nothing after
\* the pull, has not entered the change check and has not pushed.
C5_ConflictStops ==
  flags.conflict =>
    /\ ~InCall /\ pc # "returned" /\ err = "merge conflicts"
    /\ ~flags.checked /\ ~flags.wrote
    /\ log[Len(log)] = "subtree pull"
    /\ \A i \in 1..Len(log) : log[i] \in {"status", "subtree pull"}

\* A pull of a call with force = true stopped on a merge conflict.
C5_Witness ==
  /\ flags.conflict /\ opt.force /\ ~opt.pullOnly
  /\ pc = "threw"

\* C6: in the first-time initialization path, whenever rm -rf has removed the
\* existing directory, the copy to the timestamped backup directory was made
\* and the backup exists.
C6_BackupBeforeRemoval ==
  flags.dirRemoved => flags.copied /\ backup[cur] # "none"

\* C7: a call that repeats a successful call with the same options (the
\* operator has left no uncommitted edit, nothing changed in between or during
\* it, and no command failed for an outside cause) returns success, reports that
\* there is nothing to push when it gets to the change check, has issued no
\* push and has created no commit.
C7_RepeatIsNoOp ==
  (flags.repeat /\ CallOver /\ dirty = {} /\ ~changed /\ ~flags.envFault) =>
    /\ pc = "returned"
    /\ ~opt.pullOnly => said = "already up to date"
    /\ \A i \in 1..Len(log) : log[i] \notin PushCommands
    /\ ~flags.committed

\* C8: syncAll calls syncSubtree once per key of the registry, in the order of
\* the keys, whatever the earlier calls did, and ends with one entry of results
\* per key.
C8_OncePerProjectInOrder ==
  argv.all =>
    /\ idx <= Len(Keys)
    /\ Len(results) = IF InCall \/ CallOver THEN idx - 1 ELSE idx
    /\ \A i \in 1..Len(results) : results[i].project = Keys[i]
    /\ (InCall \/ CallOver) => cur = Keys[idx]
    /\ top = "idle" => Len(results) = Len(Keys)

\* syncAll is over: the call for the first key failed and the call for the last
\* key was still made, and succeeded.
C8_Witness ==
  /\ argv.all /\ top = "idle"
  /\ Len(results) = Len(Keys) /\ Len(Keys) > 1
  /\ ~results[1].success /\ results[Len(results)].success

\* C9: an entry of results records success exactly when the call returned, and
\* the command line --all exits with 1 exactly when some entry records a
\* failure, with 0 otherwise.
C9_ExitStatus ==
  argv.all =>
    /\ pc = "collected" => (results[Len(results)].success <=> err = "")
    /\ top = "idle" =>
         /\ exit \in {0, 1}
         /\ exit = 1 <=> \E i \in 1..Len(results) : ~results[i].success

\* --all exited with 1 although the call for the first key succeeded: only the
\* last call failed.
C9_Witness ==
  /\ argv.all /\ top = "idle" /\ exit = 1
  /\ Len(results) > 1
  /\ \A i \in 1..Len(results) : results[i].success <=> i < Len(results)

StepOrder(name) ==
  IF name \in Packages THEN << 1, 2, 3, 4, 5, 6, 7, 8 >>
  ELSE << 1, 2, 3, 4, 5, 6, 8 >>

\* C11: a publish or publish-template pipeline started with an uncommitted
\* change in the repository fails at step 1 and runs no other step: the
\* manifest version and the parent repository are as they were, nothing was
\* committed or pushed, and no sync call (which alone touches a subtree
\* remote) was made.
C11_DirtyStartFailsAtStep1 ==
  (pub.confirmed /\ pub.project # NoName /\ pstep # 1) =>
    (pub.before.dirty # {} =>
       /\ pub.failedAt = 1 /\ pub.ran = << 1 >>
       /\ pstep = 0 /\ top = "idle"
       /\ pub.manifest = BaseVersion /\ ~pub.wrote
       /\ RepoState = pub.before
       /\ ~pub.committed /\ ~pub.pushed /\ ~pub.published
       /\ pc = "none" /\ log = << >> /\ ~flags.wrote)

\* A publish-template pipeline, started with an edit outside every project
\* directory, failed at step 1.
C11_Witness ==
  /\ pub.confirmed /\ pub.project \in Templates
  /\ pub.before.dirty = {Elsewhere}
  /\ pub.failedAt = 1 /\ top = "idle"

\* C12: the steps of a publish run start in the order of the actions array,
\* each at most once, a step only after every step before it succeeded, and
\* none after the first step that failed.
C12_StepsInOrder ==
  (pub.confirmed /\ pub.project # NoName) =>
    /\ Len(pub.ran) <= Len(StepOrder(pub.project))
    /\ \A i \in 1..Len(pub.ran) : pub.ran[i] = StepOrder(pub.project)[i]
    /\ pub.failedAt # 0 =>
         /\ pub.ran # << >> /\ pub.ran[Len(pub.ran)] = pub.failedAt
         /\ pstep = 0 /\ top = "idle"
    /\ pstep # 0 =>
         /\ pub.failedAt = 0
         /\ \/ pstep = StepOrder(pub.project)[Len(pub.ran) + 1]
            \/ pstep \in {2, 6} /\ pub.ran # << >> /\ pstep = pub.ran[Len(pub.ran)]
    /\ pub.summary => pub.ran = StepOrder(pub.project)

\* A publish run went through its eight steps.
C12_Witness ==
  /\ pub.project \in Packages /\ pub.summary /\ pub.published
  /\ pub.ran = << 1, 2, 3, 4, 5, 6, 7, 8 >>

\* C13: when a publish run fails at step 1 or at step 2, the parent repository
\* (working tree, index, commit history) and the manifest are as they were
\* when the run started.
C13_EarlyFailureLeavesRepo ==
  (pub.confirmed /\ pub.failedAt \in {1, 2}) =>
    /\ RepoState = pub.before
    /\ pub.manifest = BaseVersion

\* C14: for every version 'M.m.p' of non-negative integers bumpVersion returns
\* '(M+1).0.0' for major, 'M.(m+1).0' for minor and 'M.m.(p+1)' for patch, and
\* throws for any other bump kind; 1.4.9 gives 1.4.10, 1.5.0 and 2.0.0.
C14_BumpVersion ==
  (pub.bumped /\ pub.input # << >>) =>
    LET M == pub.input[1]
        m == pub.input[2]
        p == pub.input[3]
    IN /\ pub.bumpThrew <=> pub.bumpType \notin BumpTypes
       /\ pub.bumpType = "major" => pub.newVersion = VersionString(M + 1, 0, 0)
       /\ pub.bumpType = "minor" => pub.newVersion = VersionString(M, m + 1, 0)
       /\ pub.bumpType = "patch" => pub.newVersion = VersionString(M, m, p + 1)
       /\ pub.input = << 1, 4, 9 >> =>
            /\ pub.bumpType = "patch" =>
                 pub.newVersion = << "1", ".", "4", ".", "1", "0" >>
            /\ pub.bumpType = "minor" =>
                 pub.newVersion = << "1", ".", "5", ".", "0" >>
            /\ pub.bumpType = "major" =>
                 pub.newVersion = << "2", ".", "0", ".", "0" >>

\* The patch bump of 1.4.9 was computed, with a carry into a second digit.
C14_Witness ==
  /\ pub.bumped /\ pub.input = << 1, 4, 9 >> /\ pub.bumpType = "patch"
  /\ pub.manifest = BaseVersion
  /\ pub.newVersion = << "1", ".", "4", ".", "1", "0" >>

\* C15: a call with pullOnly = true and pushOnly = false whose pull (or
\* first-time add) succeeded has returned success at once: it has not entered
\* the change check, has issued no fetch, split or push, and has not written
\* the remote.
C15_PullOnlyStops ==
  (opt.pullOnly /\ ~opt.pushOnly /\ flags.pullDone) =>
    /\ ~InCall /\ err = "" /\ said = "pull completed"
    /\ ~flags.checked /\ ~flags.wrote /\ ~flags.tempBranch
    /\ \A i \in 1..Len(log) :
         log[i] \notin PushCommands \cup
           {"status path", "fetch", "subtree split", "subtree split --branch"}

\* A --pull-only call merged a commit of another writer and returned.
C15_Witness ==
  /\ opt.pullOnly /\ ~opt.pushOnly /\ pc = "returned"
  /\ flags.pullDone /\ flags.committed
  /\ local[cur] \cap WriterCommits # {}
  /\ log[Len(log)] = "subtree pull"

\* C16: when a call has ended, the temporary force-push-* branch it created
\* on the force path no longer exists, whether the call succeeded or the force
\* push or the deletion failed.
C16_TempBranchGone ==
  ~InCall => ~flags.tempBranch

\* C17 (as the code has it): in a call with pushOnly = false a push is
\* attempted only after the pull of the call has returned; with force = false
\* only after the pull, or the first-time add, succeeded.
C17_PushAfterPullUnlessForced ==
  (cur \in Projects /\ ~opt.pushOnly
     /\ \E i \in 1..Len(log) : log[i] \in PushCommands) =>
    /\ flags.pullReturned
    /\ ~opt.force => flags.pullDone

\* A call with force = false merged a commit of another writer and then
\* pushed.
C17_Witness ==
  /\ ~opt.pushOnly /\ ~opt.force /\ ~opt.pullOnly
  /\ flags.pullDone /\ flags.committed /\ flags.wrote
  /\ Issued("subtree push")

\* C17 as claimed: for every value of force, a push is attempted only after
\* the pull (or the first-time add) succeeded.
C17_PushOnlyAfterSuccessfulPull ==
  (cur \in Projects /\ ~opt.pushOnly
     /\ \E i \in 1..Len(log) : log[i] \in PushCommands) =>
    flags.pullDone

\* C18: a call that went through the change check reports 'already up to
\* date' and returns without pushing only when the path has no uncommitted
\* change and the split history has no commit that the remote main line lacks.
C18_UpToDateOnlyWithoutSignals ==
  (flags.checked /\ pc = "returned" /\ said = "already up to date") =>
    /\ cur \notin dirty
    /\ CommitsToPush(local[cur], remote[cur]) = {}

\* C19: the registry step of publish starts only when the version-bump commit
\* is on the main line of the subtree's own remote.
C19_PublishedOnlyAfterSubtreePush ==
  (pub.project \in Packages /\ \E i \in 1..Len(pub.ran) : pub.ran[i] = 7) =>
    BumpCommit \in remote[pub.project]

\* C20: the version named in the message of the step-4 commit is the version
\* step 3 wrote into the manifest, in publish and in publish-template.
C20_CommitNamesManifestVersion ==
  pub.committed => pub.message = pub.manifest

\* C21: after a publish run failed at step 3 or later nothing is rolled back:
\* the manifest holds the version step 3 wrote (uncommitted when step 4
\* failed), the step-4 commit is in the history, the push of step 5 stands, and
\* what step 6 pushed is on the subtree's remote.
C21_NoRollback ==
  (pub.confirmed /\ pub.failedAt >= 3) =>
    /\ pub.failedAt >= 4 =>
         /\ pub.wrote /\ getCurrentVersion(pub.project) = pub.manifest
         /\ pub.manifest \in {pub.newVersion,
                              bumpVersion(TreeVersion(local[pub.project]), pub.bumpType).value}
    /\ pub.failedAt = 4 => pub.project \in dirty /\ ~pub.committed
    /\ pub.failedAt >= 5 => pub.committed /\ BumpCommit \in local[pub.project]
    /\ pub.failedAt >= 6 => pub.pushed
    /\ (pub.failedAt = 7 /\ flags.wrote) => BumpCommit \in remote[pub.project]

\* The registry publish of step 7 failed after step 6 had pushed the bump
\* commit to the subtree's remote.
C21_Witness ==
  /\ pub.confirmed /\ pub.failedAt = 7 /\ top = "idle"
  /\ pub.wrote /\ pub.committed /\ pub.pushed
  /\ flags.wrote /\ BumpCommit \in remote[pub.project]

\* C22: in syncAll with force = false, when the call for the first key was not
\* refused by the working-tree guard (the tree was clean when the batch
\* started), no later call of the batch is refused by it: what an earlier call
\* left behind does not make a later project fail.
C22_SyncAllIndependent ==
  (argv.all /\ ~argv.force /\ top = "main"
     /\ Len(results) >= 1 /\ results[1].error # "dirty working tree") =>
    /\ \A i \in 1..Len(results) : results[i].error # "dirty working tree"
    /\ pc = "threw" => err # "dirty working tree"

\* The end-to-end scenario: the first command is syncSubtree(X, {}) on an added
\* subtree in a clean tree; when it started the remote held one commit absent
\* locally and the path one commit absent from the remote; the two do not
\* conflict, nobody pushed during the call and no command failed for an outside
\* cause; the call is over.
C23_Scenario ==
  /\ pub.project = NoName /\ ~argv.all /\ runs = 1 /\ cur \in Projects
  /\ opt = [pullOnly |-> FALSE, pushOnly |-> FALSE, force |-> FALSE]
  /\ CallOver
  /\ added[cur] /\ ~Issued("subtree add")
  /\ dirty = {} /\ ~flags.conflict /\ ~flags.envFault /\ ~changed
  /\ Cardinality(local[cur] \cap LocalCommits) = 1
  /\ Cardinality(remote[cur] \cap WriterCommits) = 1

C24_UnknownIdIssuesNothing ==
  /\ (top = "idle" /\ runs >= 1 /\ pub.project = NoName /\ ~pub.cancelled /\ ~argv.all
        /\ cur \in {NoName, argv.name}) =>
       /\ exit = 0 <=> (argv.name \in Projects /\ pc = "returned")
       /\ argv.name \notin Projects => exit = 1 /\ log = << >>
  /\ (cur \notin Projects /\ cur # NoName) =>
       /\ log = << >>
       /\ CallOver => pc = "threw" /\ err = "unknown project"

\* The pull of the current call failed with neither the merge-conflict nor the
\* never-added signature.
C25_OtherPullFailure ==
  /\ cur \in Projects
  /\ flags.pullReturned /\ ~flags.pullDone /\ ~flags.conflict
  /\ pc # "add" /\ ~Issued("subtree add")

\* C25 (as the code has it): after such a pull failure a call with force =
\* false has failed with the pull error, without change check or push; a call
\* with force = true goes on: with pullOnly = true it returns success at once,
\* otherwise it runs the change check and pushes exactly when the check finds
\* changes.
C25_PullFailureAndForce ==
  C25_OtherPullFailure =>
    /\ ~opt.force =>
         /\ ~InCall /\ pc # "returned" /\ err = "pull failed"
         /\ ~flags.checked /\ ~flags.wrote
         /\ log[Len(log)] = "subtree pull"
         /\ \A i \in 1..Len(log) : log[i] \notin PushCommands
    /\ (opt.force /\ opt.pullOnly) =>
         /\ ~InCall /\ err = "" /\ said = "pull completed"
         /\ ~flags.checked /\ log[Len(log)] = "subtree pull"
    /\ (opt.force /\ ~opt.pullOnly) =>
         /\ err # "pull failed"
         /\ pc = "hlcStatus" \/ flags.checked
         /\ (\E i \in 1..Len(log) : log[i] \in PushCommands) => flags.checked
         /\ (~InCall /\ flags.checked /\ ~Issued("subtree push")) =>
              said = "already up to date"

\* A call with force = true pushed an uncommitted-change path after its pull
\* had failed for an outside cause.
C25_Witness ==
  /\ C25_OtherPullFailure /\ opt.force /\ ~opt.pullOnly
  /\ flags.checked /\ flags.wrote /\ pc = "returned"

\* C25 as claimed: with force = true the call always continues to the change
\* check.
C25_ForcedContinuesToCheck ==
  (C25_OtherPullFailure /\ opt.force /\ pc # "hlcStatus") => flags.checked

\* C26: whenever the call is about to issue 'git subtree add' (the first
\* attempt or the retry), the guard has verified the working tree clean and
\* the repository has no uncommitted change, whatever force is.
C26_AddOnlyInCleanTree ==
  pc \in {"add", "addRetry"} =>
    /\ Issued("status")
    /\ ~RepoDirty

\* C27: at every moment of the start-up each key of the registry maps to an
\* entry whose name is the key and whose path no other entry has; every entry
\* of the static table is there unaltered; and every other entry was made from
\* a directory of apps/ already scanned whose name starts with 'template-'.
C27_RegistryWellFormed ==
  LET P == registry.projects
      StaticKeys == { StaticTable[i] : i \in 1..Len(StaticTable) }
  IN /\ \A k \in DOMAIN P : P[k].name = k
     /\ \A k1, k2 \in DOMAIN P : P[k1].path = P[k2].path => k1 = k2
     /\ \A i \in 1..Len(StaticTable) :
          StaticTable[i] \in DOMAIN P /\ P[StaticTable[i]] = StaticEntry(i)
     /\ \A k \in DOMAIN P \ StaticKeys :
          /\ Len(Chars(k)) >= Len(TemplatePrefix)
          /\ \A c \in 1..Len(TemplatePrefix) : Chars(k)[c] = TemplatePrefix[c]
          /\ P[k].path = << "apps", k >>
          /\ \E j \in 1..(registry.next - 1) :
               registry.entries[j].name = k /\ registry.entries[j].isDir

\* The scan is over: it met a directory with the id of a static entry and
\* left that entry alone, and it added the new template directory.
C27_Witness ==
  /\ registry.next > Len(registry.entries) /\ registry.readable
  /\ \E j \in 1..Len(registry.entries) :
       /\ registry.entries[j].name = "template-express-no-auth"
       /\ registry.entries[j].isDir
  /\ "template-x" \in DOMAIN registry.projects
  /\ Cardinality(DOMAIN registry.projects) = Len(StaticTable) + 1

\* C28: step 7 of publish fails exactly when npm publish failed, whether the
\* build succeeded or not; after a failed step 7 the run is over and the
\* summary of step 8 is not emitted; the summary follows a successful publish.
C28_BuildFailureSwallowed ==
  (pub.project \in Packages /\ \E i \in 1..Len(pub.ran) : pub.ran[i] = 7) =>
    /\ pub.failedAt = 7 <=> ~pub.published
    /\ pub.failedAt = 7 =>
         /\ pstep = 0 /\ top = "idle" /\ ~pub.summary
         /\ pub.ran[Len(pub.ran)] = 7
    /\ pub.summary => pub.published
    /\ pub.published => pstep = 8 \/ pub.summary

\* The build failed, npm publish ran all the same and succeeded, and the
\* summary was printed.
C28_Witness ==
  /\ pub.project \in Packages
  /\ ~pub.built /\ pub.published /\ pub.summary /\ pub.failedAt = 0

\* The commands of the first-time initialization with its compensating
\* sequence, in the order of lines 186-205.
C29_Sequence ==
  << "subtree add", "mkdir", "cp", "git rm --cached", "rm -rf", "commit",
     "subtree add" >>

\* C29: a call issues 'git subtree add' at most twice; the adds and the
\* compensating commands it has issued are, in order, a prefix of add, backup
\* copy, untrack, delete, commit, add; anything after the first add is issued
\* only when that add failed with the prefix-exists signature; an add failure of another cause fails the call with
\* the directory untouched; after a successful add the call goes on as after a
\* successful pull, and after a failed retry the call has failed.
C29_InitializationPath ==
  (cur \in Projects /\ Issued("subtree add")) =>
    LET InSequence(c) == \E i \in 1..Len(C29_Sequence) : C29_Sequence[i] = c
        issued == SelectSeq(log, InSequence)
        adds == { i \in 1..Len(issued) : issued[i] = "subtree add" }
    IN /\ Len(issued) <= Len(C29_Sequence)
       /\ \A i \in 1..Len(issued) : issued[i] = C29_Sequence[i]
       /\ Cardinality(adds) <= 2
       /\ (Len(issued) > 1 \/ pc \in {"backup", "prepare", "addRetry"}) =>
            flags.prefixExists
       /\ err = "failed to initialize subtree" =>
            /\ ~flags.prefixExists /\ ~InCall /\ pc # "returned"
            /\ Len(issued) = 1 /\ log[Len(log)] = "subtree add"
            /\ ~flags.dirRemoved /\ ~flags.copied /\ ~flags.committed
       /\ err = "subtree add failed" =>
            /\ Cardinality(adds) = 2 /\ ~InCall /\ pc # "returned"
            /\ ~flags.pullDone /\ log[Len(log)] = "subtree add"
       /\ flags.pullDone <=> added[cur]
       /\ flags.pullDone => err \notin {"failed to initialize subtree", "subtree add failed"}
       /\ (~flags.pullDone /\ ~InCall) =>
            /\ pc # "returned"
            /\ err \in {"failed to initialize subtree", "subtree add failed"}

\* The first add failed on the existing directory, the compensating sequence
\* ran, the retry succeeded and the call returned.
C29_Witness ==
  /\ cur \in Projects /\ flags.prefixExists /\ flags.pullDone
  /\ Cardinality({ i \in 1..Len(log) : log[i] = "subtree add" }) = 2
  /\ flags.copied /\ flags.dirRemoved /\ backup[cur] = "untracked"
  /\ pc = "returned"

\* C30: the version step 3 writes into the manifest is the bump, by the kind
\* asked for, of the version the manifest held when step 3 ran, that is, of
\* the version of the history the pre-sync of step 2 left under the prefix.
C30_BumpOfVersionAtStep3 ==
  pub.wrote =>
    pub.manifest = bumpVersion(TreeVersion(local[pub.project]), pub.bumpType).value

\* C31: when step 1 of a publish pipeline found the tree clean, the commit of
\* step 4 holds the manifest change of step 3 alone: no backup directory left
\* by the pull of step 2 is part of it.  (Refuted: 'git add -A' stages the
\* untracked backup directory the first-time initialization of step 2 left.)
C31_BumpCommitOnlyManifest ==
  (pub.project # NoName /\ pub.committed /\ pub.ran[1] = 1)
    => \A p \in Projects : backup[p] # "committed"

\* The phase a logged command belongs to: 1 the working-tree guard, 2 the pull
\* (with the first-time initialization), 3 the change check, 4 the push (with
\* the force path).
C32_PhaseOf(c) ==
  CASE c = "status" -> 1
    [] c \in {"subtree pull", "subtree add", "mkdir", "cp", "git rm --cached",
              "rm -rf", "commit"} -> 2
    [] c \in {"status path", "fetch", "subtree split", "log",
              "branch -D temp-check", "remote remove"} -> 3
    [] OTHER -> 4

C32_PhaseOfPc ==
  CASE pc = "start" -> 1
    [] pc \in {"pull", "add", "backup", "prepare", "addRetry"} -> 2
    [] pc \in {"hlcStatus", "hlcRemote"} -> 3
    [] pc \in {"push"} \cup ForcePath -> 4
    [] OTHER -> 5

C32_Times(c) == Cardinality({ i \in 1..Len(log) : log[i] = c })

C32_InOrderAtMostOnce ==
  /\ \A i, j \in 1..Len(log) : i < j => C32_PhaseOf(log[i]) <= C32_PhaseOf(log[j])
  /\ \A i \in 1..Len(log) : C32_PhaseOf(log[i]) <= C32_PhaseOfPc
  /\ C32_Times("subtree pull") <= 1
  /\ C32_Times("subtree push") <= 1
  /\ C32_Times("push --force") <= 1

\* C32: when every command terminates, every syncSubtree call that was entered
\* ends, returning or throwing; the commands it issues go through the phases
\* guard, pull, change check, push in that order, and among them are at most
\* one 'git subtree pull', one 'git subtree push' and one force push.
C32_TerminatesInOrder ==
  /\ [](InCall => <>CallOver)
  /\ []C32_InOrderAtMostOnce

\* A call went through the four phases and returned.
C32_Witness ==
  /\ pc = "returned"
  /\ C32_Times("status") = 1
  /\ C32_Times("subtree pull") = 1 /\ C32_Times("fetch") = 1
  /\ C32_Times("subtree push") = 1

\* C33: once hasLocalChanges went past the check for uncommitted changes and
\* has returned, the deletion of the temp-check-* branch and the removal of
\* the temp-<name> remote were both issued; unless one of them failed, neither
\* the branch nor the remote is left, whether fetch, split and log succeeded
\* or not.
C33_CheckCleansUp ==
  Issued("fetch") =>
    /\ Issued("branch -D temp-check") /\ Issued("remote remove")
    /\ ~flags.cleanupFailed => ~flags.checkBranch /\ ~flags.checkRemote

\* The change check failed before its log; the clean-up of the catch block was
\* issued and nothing of the check is left.
C33_Witness ==
  /\ Issued("fetch") /\ ~Issued("log")
  /\ Issued("remote remove")
  /\ flags.envFault /\ ~flags.cleanupFailed
  /\ ~flags.checkBranch /\ ~flags.checkRemote

C34_BothOnly == cur \in Projects /\ opt.pullOnly /\ opt.pushOnly

C35_UnconfirmedDoesNothing ==
  (pub.cancelled \/ (pub.project # NoName /\ ~pub.confirmed)) =>
    /\ pub.cancelled
    /\ top = "idle" /\ pstep = 0
    /\ pub.ran = << >> /\ pub.failedAt = 0 /\ ~pub.summary
    /\ ~pub.bumped /\ pub.newVersion = << >>
    /\ pub.manifest = BaseVersion /\ ~pub.wrote
    /\ RepoState = pub.before
    /\ ~pub.committed /\ BumpCommit \notin made
    /\ ~pub.pushed /\ ~pub.built /\ ~pub.published
    /\ pc = "none" /\ log = << >> /\ ~flags.wrote

\* The operator answered the prompts of publish and declined, in a tree that
\* held a commit to push.
C35_Witness ==
  /\ pub.cancelled /\ pub.project \in Packages /\ ~pub.confirmed
  /\ runs = 1
  /\ local[pub.project] # {}


====
